---------------------------- MODULE Spec2Model ----------------------------
(***************************************************************************)
(* Model of backend/main.py: the two POST handlers of the SVR service,     *)
(* upload_file_info (/api/v1/upload-info) and train_svr_model              *)
(* (/api/v1/train-svr), together with read_file and create_plot_base64.    *)
(*                                                                         *)
(* Both handlers are "async def" bodies without an await, so one request   *)
(* runs from its first statement to its return before the next one starts: *)
(* the model handles one request at a time.  The only state that outlives  *)
(* a request is pyplot's registry of open figures (openFigures).           *)
(*                                                                         *)
(* Numbers are exact rationals <<n, d>> with d > 0; <<0, 0>> is NaN.       *)
(* Strings that the code builds by formatting are sequences of fragments.  *)
(***************************************************************************)
EXTENDS Integers, Sequences, FiniteSets, TLC

\* ------------------------------------------------------------------ bounds
\* Largest number of data rows of an uploaded table.
MaxRows == 3

\* Largest number of figures left open in pyplot before a further training
\* request is admitted (caps the leak counter).
MaxFigures == 1

\* ------------------------------------------------------- program constants
\* os.getenv("MAX_FILE_SIZE", 50485760)
MAX_FILE_SIZE == 50485760

\* SVRParameters.test_size default 0.2, in tenths
DEFAULT_TEST_SIZE == 2

\* ---------------------------------------------------------------- numbers
NaN == <<0, 0>>

IsNaN(r) == r[2] = 0

Abs(n) == IF n < 0 THEN -n ELSE n

RECURSIVE GCD(_, _)
GCD(a, b) == IF b = 0 THEN a ELSE GCD(b, a % b)

\* the canonical form of n/d, d >= 0 (d = 0: NaN)
Norm(n, d) ==
    IF d = 0 THEN NaN
    ELSE LET g == GCD(Abs(n), d) IN <<n \div g, d \div g>>

Num(n) == <<n, 1>>

RAdd(a, b) == Norm(a[1] * b[2] + b[1] * a[2], a[2] * b[2])

RSub(a, b) == Norm(a[1] * b[2] - b[1] * a[2], a[2] * b[2])

RMul(a, b) == Norm(a[1] * b[1], a[2] * b[2])

RAbs(a) == <<Abs(a[1]), a[2]>>

\* a / b; a zero divisor gives NaN (numpy's 0/0)
RDiv(a, b) ==
    IF b[1] = 0 THEN NaN
    ELSE IF b[1] < 0 THEN Norm(-(a[1] * b[2]), a[2] * (-b[1]))
    ELSE Norm(a[1] * b[2], a[2] * b[1])

RECURSIVE RSum(_)
RSum(s) == IF s = <<>> THEN Num(0) ELSE RAdd(Head(s), RSum(Tail(s)))

Range(s) == {s[i] : i \in 1..Len(s)}

\* the elements of the set of naturals S in increasing order
RECURSIVE Sorted(_)
Sorted(S) ==
    IF S = {} THEN <<>>
    ELSE LET m == CHOOSE x \in S : \A z \in S : x <= z
         IN <<m>> \o Sorted(S \ {m})

\* ----------------------------------------------------------------- inputs
\* A file name is the sequence of its dot-separated parts.
FileNames == { <<"data", "csv">>, <<"DATA", "CSV">>, <<"notes", "txt">> }

\* UploadFile.size in bytes; 0 stands for "not reported" (None), which the
\* size test treats alike.
FileSizes == { 1024, MAX_FILE_SIZE + 1 }

Files == [filename : FileNames, size : FileSizes]

\* str.lower() on the name parts that occur
Lower(s) ==
    CASE s = "CSV" -> "csv"
      [] s = "DATA" -> "data"
      [] OTHER -> s

\* values a numeric cell of an uploaded table takes (besides "missing")
CellValues == {0, 1}

NumCells == {NaN} \cup {Num(v) : v \in CellValues}

\* Tables have the columns x1, s, y in this order: s is text, y is numeric,
\* x1 is numeric or text.  A table without rows has only object columns, as
\* pandas.read_csv reads a header-only file.  Rows come in one order only
\* (x1's missing entries first, y non-decreasing with its missing entries
\* first): the split may put any rows into the test partition, so the order
\* of the rows is immaterial.
ColumnNames == <<"x1", "s", "y">>

SortKey(v) == IF IsNaN(v) THEN -1 ELSE v[1]

NumericColumnsY(n) ==
    { yy \in [1..n -> NumCells] :
        \A i, j \in 1..n : i < j => SortKey(yy[i]) <= SortKey(yy[j]) }

NumericColumnsX(n) ==
    { [i \in 1..n |-> IF i <= k THEN NaN ELSE Num(1)] : k \in 0..n }

Table(n, x1text, x1, yy) ==
    [nrows |-> n,
     columns |-> ColumnNames,
     dtype |-> [c \in Range(ColumnNames) |->
                  IF c = "s" \/ (c = "x1" /\ x1text) \/ n = 0
                  THEN "object" ELSE "float64"],
     cells |-> [c \in Range(ColumnNames) |->
                  IF c = "s" \/ (c = "x1" /\ x1text) \/ n = 0
                  THEN [i \in 1..n |-> "a"]
                  ELSE IF c = "x1" THEN x1 ELSE yy]]

Tables ==
    UNION { { Table(n, x1text, x1, yy) :
                x1 \in NumericColumnsX(n),
                yy \in NumericColumnsY(n),
                x1text \in BOOLEAN } :
            n \in 0..MaxRows }

\* SVRParameters.feature_columns: None, or a list
None == [isNone |-> TRUE, list |-> <<>>]

List(l) == [isNone |-> FALSE, list |-> l]

FeatureChoices ==
    { None, List(<<>>), List(<<"x1">>), List(<<"s">>), List(<<"s", "x1">>),
      List(<<"x1", "y">>), List(<<"zz">>), List(<<"zz", "x1", "qq">>) }

\* SVRParameters.test_size in tenths (0.2, 0.5, 1.0)
TestSizes == {DEFAULT_TEST_SIZE, 5, 10}

ParamSpace ==
    [target_column : {"y", "s", "zz"},
     feature_columns : FeatureChoices,
     test_size : TestSizes]

\* predictions a fitted SVR returns for a row (the solver is opaque)
PredValues == {Num(0), Num(1)}

\* ------------------------------------------------------------------ state
VARIABLES
    pc,             \* the statement the current request is at ("idle": none)
    endpoint,       \* "upload-info", "train-svr" or "none"
    file,           \* the UploadFile of the request
    params,         \* the parsed SVRParameters
    df,             \* the DataFrame read_file returned
    feature_cols,   \* feature_cols of train_svr_model
    X,              \* the feature matrix X
    y,              \* the target vector y, with its dtype
    split,          \* row numbers of the training and the test partition
    preds,          \* y_train_pred and y_test_pred
    metrics,        \* the SVRMetrics
    plots,          \* the data URIs made so far
    resp,           \* the ApiResponse the handler returned
    caught,         \* history: the exception the except clause handled
    stages,         \* history: the stages the request has executed
    openFigures,    \* number of figures in pyplot's registry
    figuresBefore   \* history: openFigures when the request arrived

vars == <<pc, endpoint, file, params, df, feature_cols, X, y, split, preds,
          metrics, plots, resp, caught, stages, openFigures,
          figuresBefore>>

NoFile == [filename |-> <<>>, size |-> 0]

NoParams == [target_column |-> "", feature_columns |-> None, test_size |-> 0]

NoTable == [nrows |-> 0, columns |-> <<>>, dtype |-> <<>>, cells |-> <<>>]

NoX == [columns |-> <<>>, cells |-> <<>>]

NoY == [dtype |-> "", cells |-> <<>>]

NoSplit == [train |-> <<>>, test |-> <<>>]

NoMetrics == [computed |-> FALSE]

NoData == [kind |-> "null"]

NoError == [isNull |-> TRUE, text |-> <<>>]

NoExc == [type |-> "none", text |-> <<>>]

NoResp == [sent |-> FALSE]

\* ApiResponse(success=..., message=..., data=..., error=...)
ApiResponse(success, message, data, error) ==
    [sent |-> TRUE, success |-> success, message |-> message, data |-> data,
     error |-> error]

ErrorStr(text) == [isNull |-> FALSE, text |-> text]

\* an exception object; text is str(e)
Exc(type, text) == [type |-> type, text |-> text]

\* HTTPException(status_code=400, detail=...); str(e) is "400: <detail>"
HTTPException(detail) == Exc("HTTPException", <<"400: ">> \o detail)

Init ==
    /\ pc = "idle"
    /\ endpoint = "none"
    /\ file = NoFile
    /\ params = NoParams
    /\ df = NoTable
    /\ feature_cols = <<>>
    /\ X = NoX
    /\ y = NoY
    /\ split = NoSplit
    /\ preds = NoSplit
    /\ metrics = NoMetrics
    /\ plots = <<>>
    /\ resp = NoResp
    /\ caught = NoExc
    /\ stages = <<>>
    /\ openFigures = 0
    /\ figuresBefore = 0

\* the variables a statement of a handler leaves alone are listed per action
dataVars == <<df, feature_cols, X, y, split, preds, metrics, plots>>

reqVars == <<endpoint, file, figuresBefore>>

\* except Exception as e (upload_file_info)
UploadExceptResponse(e) ==
    ApiResponse(FALSE, "Failed to process file", NoData, ErrorStr(e.text))

\* the except clause without error=str(e)
TrainExceptResponseNoError(e) ==
    ApiResponse(FALSE, "Failed to train SVR model", NoData, NoError)

\* except Exception as e (train_svr_model)
TrainExceptResponse(e) ==
    ApiResponse(FALSE, "Failed to train SVR model", NoData, ErrorStr(e.text))

\* "return ApiResponse(...)"
Return(r) ==
    /\ resp' = r
    /\ pc' = "done"
    /\ caught' = caught

\* an exception leaves the try block: the handler's except clause catches
\* it (both catch Exception) and returns its own response
Raise(e) ==
    /\ caught' = e
    /\ pc' = "done"
    /\ resp' = IF endpoint = "upload-info" THEN UploadExceptResponse(e)
               ELSE TrainExceptResponse(e)

Goto(next) ==
    /\ pc' = next
    /\ resp' = resp
    /\ caught' = caught

Ran(stage) == stages' = Append(stages, stage)

\* -------------------------------------------------------------- read_file
\* name.endswith("." + ext)
EndsWithExt(name, ext) == Len(name) >= 2 /\ name[Len(name)] = ext

\* What read_file does with an upload: returns a table, or raises the
\* HTTPException its except clause builds from whatever was raised inside
\* (a decoding or parsing error, or its own "Unsupported file format").
ReadFileOutcomes(f) ==
    IF \/ EndsWithExt(f.filename, "csv")
       \/ EndsWithExt(f.filename, "xlsx")
       \/ EndsWithExt(f.filename, "xls")
    THEN { [ok |-> TRUE, df |-> t, exc |-> NoExc] : t \in Tables }
         \cup { [ok |-> FALSE, df |-> NoTable,
                 exc |-> HTTPException(<<"Error reading file: ",
                                         "Error tokenizing data">>)] }
    ELSE { [ok |-> FALSE, df |-> NoTable,
            exc |-> HTTPException(<<"Error reading file: ">>
                       \o HTTPException(<<"Unsupported file format">>).text)] }

\* ------------------------------------------------ POST /api/v1/upload-info
ReceiveUpload ==
    /\ pc = "idle"
    /\ \E f \in Files : file' = f
    /\ endpoint' = "upload-info"
    /\ figuresBefore' = openFigures
    /\ pc' = "u_size"
    /\ UNCHANGED <<params, dataVars, resp, caught, stages, openFigures>>

\* file.size and file.size > max_size
TooLarge(f) == f.size # 0 /\ f.size > MAX_FILE_SIZE

UploadCheckSize ==
    /\ pc = "u_size"
    /\ Ran("size_check")
    /\ IF TooLarge(file)
       THEN Return(ApiResponse(FALSE, "File too large", NoData,
                ErrorStr(<<"File size exceeds ", ToString(MAX_FILE_SIZE),
                           " bytes">>)))
       ELSE Goto("u_ext")
    /\ UNCHANGED <<reqVars, params, dataVars, openFigures>>

allowed_extensions == <<"csv", "xlsx", "xls">>

\* file.filename.split(".")[-1].lower()
FileExtension(f) == Lower(f.filename[Len(f.filename)])

UploadCheckExtension ==
    /\ pc = "u_ext"
    /\ Ran("extension_check")
    /\ IF FileExtension(file) \notin Range(allowed_extensions)
       THEN Return(ApiResponse(FALSE, "Invalid file format", NoData,
                ErrorStr(<<"Only ">> \o allowed_extensions
                         \o <<" files are allowed">>)))
       ELSE Goto("u_read")
    /\ UNCHANGED <<reqVars, params, dataVars, openFigures>>

UploadRead ==
    /\ pc = "u_read"
    /\ Ran("read_file")
    /\ \E o \in ReadFileOutcomes(file) :
          IF o.ok
          THEN /\ df' = o.df
               /\ Goto("u_info")
          ELSE /\ df' = df
               /\ Raise(o.exc)
    /\ UNCHANGED <<reqVars, params, feature_cols, X, y, split, preds, metrics,
                   plots, openFigures>>

IsNumeric(t, c) == t.dtype[c] # "object"

\* int(df[col].isnull().sum())
MissingCount(t, c) ==
    IF IsNumeric(t, c)
    THEN Cardinality({i \in 1..t.nrows : IsNaN(t.cells[c][i])})
    ELSE 0

Min(a, b) == IF a < b THEN a ELSE b

\* FileInfo(...).dict(); the preview is df.head().fillna("") by rows
FileInfo(f, t) ==
    [kind |-> "FileInfo",
     filename |-> f.filename,
     shape |-> <<t.nrows, Len(t.columns)>>,
     columns |-> t.columns,
     dtypes |-> t.dtype,
     missing_values |-> [c \in Range(t.columns) |-> MissingCount(t, c)],
     preview |-> [i \in 1..Min(t.nrows, 5) |->
                    [c \in Range(t.columns) |->
                        IF IsNumeric(t, c) /\ IsNaN(t.cells[c][i])
                        THEN "" ELSE ToString(t.cells[c][i])]]]

UploadInfo ==
    /\ pc = "u_info"
    /\ Ran("file_info")
    /\ Return(ApiResponse(TRUE, "File uploaded successfully",
                          FileInfo(file, df), NoError))
    /\ UNCHANGED <<reqVars, params, dataVars, openFigures>>

\* -------------------------------------------------- POST /api/v1/train-svr
\* A further training request is admitted while fewer than MaxFigures
\* figures are open; train_svr_model itself checks neither size nor name.
ReceiveTrain ==
    /\ pc = "idle"
    /\ openFigures < MaxFigures
    /\ \E f \in Files : file' = f
    /\ endpoint' = "train-svr"
    /\ figuresBefore' = openFigures
    /\ pc' = "t_parse"
    /\ UNCHANGED <<params, dataVars, resp, caught, stages, openFigures>>

\* SVRParameters.parse_raw(parameters): the parameters, or a ValidationError
\* (malformed JSON, target_column absent, a field of the wrong type)
TrainParse ==
    /\ pc = "t_parse"
    /\ Ran("parse_parameters")
    /\ \/ \E p \in ParamSpace :
             /\ params' = p
             /\ Goto("t_read")
       \/ /\ params' = params
          /\ Raise(Exc("ValidationError",
                       <<"1 validation error for SVRParameters">>))
    /\ UNCHANGED <<reqVars, dataVars, openFigures>>

TrainRead ==
    /\ pc = "t_read"
    /\ Ran("read_file")
    /\ \E o \in ReadFileOutcomes(file) :
          IF o.ok
          THEN /\ df' = o.df
               /\ Goto("t_target")
          ELSE /\ df' = df
               /\ Raise(o.exc)
    /\ UNCHANGED <<reqVars, params, feature_cols, X, y, split, preds, metrics,
                   plots, openFigures>>

\* if params.target_column not in df.columns
TrainValidateTarget ==
    /\ pc = "t_target"
    /\ Ran("validate_target")
    /\ IF params.target_column \notin Range(df.columns)
       THEN Return(ApiResponse(FALSE, "Invalid target column", NoData,
                ErrorStr(<<"Column '", params.target_column,
                           "' not found in dataset">>)))
       ELSE Goto("t_features")
    /\ UNCHANGED <<reqVars, params, dataVars, openFigures>>

\* feature_cols: the explicit list when it is given and not empty, else every
\* column but the target
SelectFeatures(p, t) ==
    IF ~p.feature_columns.isNone /\ Len(p.feature_columns.list) > 0
    THEN p.feature_columns.list
    ELSE SelectSeq(t.columns, LAMBDA c : c # p.target_column)

\* the comprehension stopping at the first absent name
MissingColsFirst(cols, t) ==
    LET absent == SelectSeq(cols, LAMBDA c : c \notin Range(t.columns))
    IN IF absent = <<>> THEN <<>> ELSE <<Head(absent)>>

\* missing_cols = [col for col in feature_cols if col not in df.columns]
MissingCols(cols, t) == SelectSeq(cols, LAMBDA c : c \notin Range(t.columns))

TrainSelectFeatures ==
    /\ pc = "t_features"
    /\ Ran("select_features")
    /\ feature_cols' = SelectFeatures(params, df)
    /\ LET missing_cols == MissingCols(feature_cols', df)
       IN IF Len(missing_cols) > 0
          THEN Return(ApiResponse(FALSE, "Invalid feature columns", NoData,
                   ErrorStr(<<"Columns not found: ">> \o missing_cols)))
          ELSE Goto("t_prepare")
    /\ UNCHANGED <<reqVars, params, df, X, y, split, preds, metrics, plots,
                   openFigures>>

\* df[cols].select_dtypes(include=[np.number]).columns
SelectNumeric(cols, t) == SelectSeq(cols, LAMBDA c : IsNumeric(t, c))

\* X.empty: no column, or no row
IsEmpty(m, t) == Len(m.columns) = 0 \/ t.nrows = 0

TrainPrepare ==
    /\ pc = "t_prepare"
    /\ Ran("prepare_data")
    /\ X' = [columns |-> SelectNumeric(feature_cols, df),
             cells |-> [c \in Range(SelectNumeric(feature_cols, df)) |->
                           df.cells[c]]]
    /\ y' = [dtype |-> df.dtype[params.target_column],
             cells |-> df.cells[params.target_column]]
    /\ IF IsEmpty(X', df)
       THEN Return(ApiResponse(FALSE, "No numeric features found", NoData,
                ErrorStr(<<"At least one numeric feature column is required">>)))
       ELSE Goto("t_impute")
    /\ UNCHANGED <<reqVars, params, df, feature_cols, split, preds, metrics,
                   plots, openFigures>>

\* Series.mean(): the mean of the entries that are not missing, NaN if none
SeriesMean(col) ==
    LET present == SelectSeq(col, LAMBDA v : ~IsNaN(v))
    IN RDiv(RSum(present), Num(Len(present)))

\* Series.fillna(value): a NaN value fills nothing
Fillna(col, value) ==
    [i \in 1..Len(col) |-> IF IsNaN(col[i]) THEN value ELSE col[i]]

\* X.fillna(X.mean()), column by column
FillnaMean(col) == Fillna(col, SeriesMean(col))

\* X = X.fillna(X.mean()); y = y.fillna(y.mean()): the mean of an object
\* column of text raises TypeError
TrainImpute ==
    /\ pc = "t_impute"
    /\ Ran("impute")
    /\ X' = [X EXCEPT !.cells = [c \in DOMAIN X.cells |-> FillnaMean(X.cells[c])]]
    /\ IF y.dtype = "object"
       THEN /\ y' = y
            /\ Raise(Exc("TypeError", <<"Could not convert string to numeric">>))
       ELSE /\ y' = [y EXCEPT !.cells = FillnaMean(y.cells)]
            /\ Goto("t_split")
    /\ UNCHANGED <<reqVars, params, df, feature_cols, split, preds, metrics,
                   plots, openFigures>>

\* the test size truncated instead of rounded up
NTestFloor(n, tenths) == (n * tenths) \div 10

\* sklearn's _validate_shuffle_split: n_test = ceil(test_size * n_samples)
NTest(n, tenths) == (n * tenths + 9) \div 10

\* a float test_size must lie strictly between 0 and 1, and the training
\* partition must not come out empty
SplitValid(n, tenths) ==
    /\ 0 < tenths
    /\ tenths < 10
    /\ n - NTest(n, tenths) > 0

\* train_test_split(X, y, test_size=..., random_state=...): the seeded
\* shuffle is opaque, so any choice of n_test rows is a possible test set
TrainSplit ==
    /\ pc = "t_split"
    /\ Ran("split")
    /\ IF SplitValid(Len(y.cells), params.test_size)
       THEN /\ \E T \in SUBSET (1..Len(y.cells)) :
                  /\ Cardinality(T) = NTest(Len(y.cells), params.test_size)
                  /\ split' = [train |-> Sorted((1..Len(y.cells)) \ T),
                               test |-> Sorted(T)]
            /\ Goto("t_scale")
       ELSE /\ split' = split
            /\ Raise(Exc("ValueError",
                         <<"test_size or the resulting train set is invalid">>))
    /\ UNCHANGED <<reqVars, params, df, feature_cols, X, y, preds, metrics,
                   plots, openFigures>>

\* the entries of col at the rows idx
Take(col, idx) == [i \in 1..Len(idx) |-> col[idx[i]]]

HasNaN(col) == \E i \in 1..Len(col) : IsNaN(col[i])

\* some feature column has a NaN among the rows idx
XHasNaN(m, idx) == \E c \in DOMAIN m.cells : HasNaN(Take(m.cells[c], idx))

\* StandardScaler.fit_transform / transform: NaN is allowed through
TrainScale ==
    /\ pc = "t_scale"
    /\ Ran("scale")
    /\ Goto("t_fit")
    /\ UNCHANGED <<reqVars, params, dataVars, openFigures>>

\* SVR(...).fit(X_train_scaled, y_train): check_X_y rejects NaN; the
\* hyperparameters may be out of domain (C <= 0, unknown kernel or gamma)
TrainFit ==
    /\ pc = "t_fit"
    /\ Ran("fit")
    /\ IF XHasNaN(X, split.train) \/ HasNaN(Take(y.cells, split.train))
       THEN Raise(Exc("ValueError", <<"Input contains NaN">>))
       ELSE \/ Goto("t_predict")
            \/ Raise(Exc("ValueError", <<"Invalid hyperparameter">>))
    /\ UNCHANGED <<reqVars, params, dataVars, openFigures>>

\* svr.predict on both partitions
TrainPredict ==
    /\ pc = "t_predict"
    /\ Ran("predict")
    /\ IF XHasNaN(X, split.test)
       THEN /\ preds' = preds
            /\ Raise(Exc("ValueError", <<"Input contains NaN">>))
       ELSE /\ \E ptrain \in [1..Len(split.train) -> PredValues],
                  ptest \in [1..Len(split.test) -> PredValues] :
                  preds' = [train |-> ptrain, test |-> ptest]
            /\ Goto("t_metrics")
    /\ UNCHANGED <<reqVars, params, df, feature_cols, X, y, split, metrics,
                   plots, openFigures>>

\* (y_true - y_pred) ** 2, row by row
SquaredErrors(yt, yp) ==
    [i \in 1..Len(yt) |-> RMul(RSub(yt[i], yp[i]), RSub(yt[i], yp[i]))]

\* sklearn.metrics.mean_squared_error
mean_squared_error(yt, yp) ==
    RDiv(RSum(SquaredErrors(yt, yp)), Num(Len(yt)))

\* sklearn.metrics.mean_absolute_error
mean_absolute_error(yt, yp) ==
    RDiv(RSum([i \in 1..Len(yt) |-> RAbs(RSub(yt[i], yp[i]))]), Num(Len(yt)))

\* SS_tot: the squared deviations of y_true from its own mean
TotalSumOfSquares(yt) ==
    LET mean == RDiv(RSum(yt), Num(Len(yt)))
    IN RSum([i \in 1..Len(yt) |-> RMul(RSub(yt[i], mean), RSub(yt[i], mean))])

\* sklearn.metrics.r2_score (force_finite=True): NaN with fewer than two
\* samples; with SS_tot = 0 it is 1 for a perfect prediction and 0 otherwise
r2_score(yt, yp) ==
    LET numerator == RSum(SquaredErrors(yt, yp))
        denominator == TotalSumOfSquares(yt)
    IN IF Len(yt) < 2 THEN NaN
       ELSE IF denominator[1] # 0
            THEN RSub(Num(1), RDiv(numerator, denominator))
       ELSE IF numerator[1] # 0 THEN Num(0)
       ELSE Num(1)

\* metrics = SVRMetrics(...)
TrainMetrics ==
    /\ pc = "t_metrics"
    /\ Ran("metrics")
    /\ LET y_train == Take(y.cells, split.train)
           y_test == Take(y.cells, split.test)
       IN metrics' = [train_mse |-> mean_squared_error(y_train, preds.train),
                      test_mse |-> mean_squared_error(y_test, preds.test),
                      train_r2 |-> r2_score(y_train, preds.train),
                      test_r2 |-> r2_score(y_test, preds.test),
                      train_mae |-> mean_absolute_error(y_train, preds.train),
                      test_mae |-> mean_absolute_error(y_test, preds.test)]
    /\ Goto("t_draw1")
    /\ UNCHANGED <<reqVars, params, df, feature_cols, X, y, split, preds,
                   plots, openFigures>>

\* plt.subplots(...) registers a new figure with pyplot; the handler then
\* draws on its axes and calls plt.tight_layout.  Either of these may raise,
\* and nothing on that path closes the figure.
DrawFigure(stage, next) ==
    /\ pc = stage
    /\ Ran(stage)
    /\ openFigures' = openFigures + 1
    /\ \/ Goto(next)
       \/ Raise(Exc("ValueError", <<"scatter failed">>))
       \/ Raise(Exc("ValueError", <<"tight_layout failed">>))
    /\ UNCHANGED <<reqVars, params, dataVars>>

\* f"data:image/png;base64,{encoded_plot}"
DataUri(fig) == <<"data:image/png;base64,", fig>>

\* except Exception as e: raise Exception(f"Error creating plot: {str(e)}")
PlotError(inner) == Exc("Exception", <<"Error creating plot: ", inner>>)

\* create_plot_base64(fig): savefig, then plt.close(fig) on both paths
CreatePlot(stage, fig, next) ==
    /\ pc = stage
    /\ Ran(stage)
    /\ openFigures' = openFigures - 1
    /\ \/ /\ plots' = Append(plots, DataUri(fig))
          /\ Goto(next)
       \/ /\ plots' = plots
          /\ Raise(PlotError("savefig failed"))
    /\ UNCHANGED <<reqVars, params, df, feature_cols, X, y, split, preds,
                   metrics>>

TrainDrawActualVsPredicted == DrawFigure("t_draw1", "t_save1")

TrainSaveActualVsPredicted == CreatePlot("t_save1", "fig1", "t_draw2")

TrainDrawResiduals == DrawFigure("t_draw2", "t_save2")

TrainSaveResiduals == CreatePlot("t_save2", "fig2", "t_result")

\* SVRResult(...).dict() with the given list as model_parameters'
\* feature_columns; of the parameters only those the handler itself reads
\* are modelled
ResultWith(columns) ==
    [kind |-> "SVRResult",
     model_parameters |-> [target_column |-> params.target_column,
                           test_size |-> params.test_size,
                           feature_columns |-> columns],
     metrics |-> metrics,
     data_info |-> [total_samples |-> df.nrows,
                    training_samples |-> Len(split.train),
                    test_samples |-> Len(split.test),
                    features |-> Len(X.columns),
                    feature_names |-> X.columns],
     plots |-> [actual_vs_predicted |-> plots[1], residuals |-> plots[2]]]

\* the result keeping the requested feature_columns of **params.dict()
SVRResultRequested == ResultWith(feature_cols)

\* result = SVRResult(model_parameters={**params.dict(),
\* "feature_columns": X.columns.tolist()}, ...)
SVRResult == ResultWith(X.columns)

TrainResult ==
    /\ pc = "t_result"
    /\ Ran("result")
    /\ Return(ApiResponse(TRUE, "SVR model trained successfully", SVRResult,
                          NoError))
    /\ UNCHANGED <<reqVars, params, dataVars, openFigures>>

\* the response has been sent; everything request-scoped is discarded
Finish ==
    /\ pc = "done"
    /\ pc' = "idle"
    /\ endpoint' = "none"
    /\ file' = NoFile
    /\ params' = NoParams
    /\ df' = NoTable
    /\ feature_cols' = <<>>
    /\ X' = NoX
    /\ y' = NoY
    /\ split' = NoSplit
    /\ preds' = NoSplit
    /\ metrics' = NoMetrics
    /\ plots' = <<>>
    /\ resp' = NoResp
    /\ caught' = NoExc
    /\ stages' = <<>>
    /\ figuresBefore' = 0
    /\ UNCHANGED openFigures

Next ==
    \/ ReceiveUpload
    \/ UploadCheckSize
    \/ UploadCheckExtension
    \/ UploadRead
    \/ UploadInfo
    \/ ReceiveTrain
    \/ TrainParse
    \/ TrainRead
    \/ TrainValidateTarget
    \/ TrainSelectFeatures
    \/ TrainPrepare
    \/ TrainImpute
    \/ TrainSplit
    \/ TrainScale
    \/ TrainFit
    \/ TrainPredict
    \/ TrainMetrics
    \/ TrainDrawActualVsPredicted
    \/ TrainSaveActualVsPredicted
    \/ TrainDrawResiduals
    \/ TrainSaveResiduals
    \/ TrainResult

\* one request to a freshly started process
Spec == Init /\ [][Next]_vars

\* the process serving one request after another
NextServer ==
    \/ Next
    \/ Finish

SpecServer == Init /\ [][NextServer]_vars

\* ------------------------------------------------------------- properties
TrainDone == pc = "done" /\ endpoint = "train-svr"

TrainSucceeded == TrainDone /\ resp.success

HasRun(stage) == stage \in Range(stages)

\* C1: on both POST endpoints a response exists exactly when the handler has
\* returned; whichever stage raised, the response is success=false with a
\* non-empty message, error equal to the raised exception's string and
\* data=null; and no response with success=false carries data.
C1_FailureEnvelope ==
    /\ (pc # "done" => resp = NoResp /\ caught = NoExc)
    /\ (pc = "done" =>
          /\ resp.sent
          /\ (caught # NoExc =>
                /\ ~resp.success
                /\ resp.message # ""
                /\ ~resp.error.isNull
                /\ resp.error.text = caught.text
                /\ resp.data = NoData)
          /\ (~resp.success =>
                /\ resp.message # ""
                /\ ~resp.error.isNull
                /\ resp.error.text # <<>>
                /\ resp.data = NoData))

\* a training request whose plot encoding raised after the metrics were
\* computed has been answered
C1_Witness ==
    /\ TrainDone
    /\ HasRun("t_save2")
    /\ caught.type = "Exception"
    /\ metrics # NoMetrics

\* the names of an explicit, non-empty feature_columns list
ExplicitFeatures ==
    IF params.feature_columns.isNone THEN {}
    ELSE Range(params.feature_columns.list)

\* C2: a train-svr request whose target column is in the dataset and whose
\* explicit feature_columns name at least one column the dataset lacks is
\* answered success=false, the error lists exactly the absent names, and no
\* stage after the feature validation has run.
C2_MissingFeaturesRejected ==
    ( /\ endpoint = "train-svr"
      /\ HasRun("select_features")
      /\ params.target_column \in Range(df.columns)
      /\ \E c \in ExplicitFeatures : c \notin Range(df.columns) )
    => /\ pc = "done"
       /\ ~resp.success
       /\ ~resp.error.isNull
       /\ \A c \in ExplicitFeatures \cup Range(df.columns) :
             c \in Range(Tail(resp.error.text))
                <=> (c \in ExplicitFeatures /\ c \notin Range(df.columns))
       /\ resp.data = NoData
       /\ stages = <<"parse_parameters", "read_file", "validate_target",
                     "select_features">>
       /\ X = NoX /\ y = NoY /\ split = NoSplit /\ preds = NoSplit
       /\ metrics = NoMetrics /\ plots = <<>>
       /\ openFigures = figuresBefore

\* a request naming two absent columns and a present one has been rejected
C2_Witness ==
    /\ TrainDone
    /\ params.feature_columns = List(<<"zz", "x1", "qq">>)
    /\ params.target_column = "y"
    /\ resp.message = "Invalid feature columns"

\* C3 (as claimed): in every successful train-svr response the target column
\* is in neither model_parameters.feature_columns nor data_info.feature_names.
C3_TargetNeverFeature ==
    TrainSucceeded =>
       /\ params.target_column
             \notin Range(resp.data.model_parameters.feature_columns)
       /\ params.target_column \notin Range(resp.data.data_info.feature_names)

\* round(a / b) for a >= 0, b > 0, ties to even as Python's round
RoundHalfEven(a, b) ==
    LET q == a \div b
        r == a % b
    IN IF 2 * r < b THEN q
       ELSE IF 2 * r > b THEN q + 1
       ELSE IF q % 2 = 0 THEN q ELSE q + 1

\* C4 (as claimed): a successful response over N rows and test fraction f
\* has training_samples + test_samples = total_samples = N, test_samples =
\* round(N * f), and both partitions non-empty.
C4_TestIsRound ==
    TrainSucceeded =>
       LET info == resp.data.data_info
       IN /\ info.total_samples = df.nrows
          /\ info.training_samples + info.test_samples = info.total_samples
          /\ info.test_samples = RoundHalfEven(df.nrows * params.test_size, 10)
          /\ info.training_samples > 0
          /\ info.test_samples > 0

\* k is the ceiling of a / b, b > 0
IsCeil(k, a, b) == k * b >= a /\ (k - 1) * b < a

\* C4 (amended): a successful response over N rows and test fraction f in
\* (0,1) has training_samples + test_samples = total_samples = N, test_samples
\* = ceil(N * f), and both partitions non-empty; the split sizes of 100 rows
\* at test_size 0.2 are 80 and 20.
C4_TestIsCeil ==
    /\ TrainSucceeded =>
          LET info == resp.data.data_info
          IN /\ 0 < params.test_size /\ params.test_size < 10
             /\ info.total_samples = df.nrows
             /\ info.training_samples + info.test_samples = info.total_samples
             /\ IsCeil(info.test_samples, df.nrows * params.test_size, 10)
             /\ info.training_samples > 0
             /\ info.test_samples > 0
    /\ SplitValid(100, DEFAULT_TEST_SIZE)
    /\ NTest(100, DEFAULT_TEST_SIZE) = 20
    /\ 100 - NTest(100, DEFAULT_TEST_SIZE) = 80

\* three rows at test_size 0.2 have been split two and one
C4_Witness ==
    /\ TrainSucceeded
    /\ df.nrows = 3
    /\ params.test_size = DEFAULT_TEST_SIZE
    /\ resp.data.data_info.test_samples = 1
    /\ resp.data.data_info.training_samples = 2

\* the requested feature columns, or by default every column but the target
RequestedFeatures ==
    IF params.feature_columns.isNone \/ params.feature_columns.list = <<>>
    THEN SelectSeq(df.columns, LAMBDA c : c # params.target_column)
    ELSE params.feature_columns.list

\* those of them that are numeric columns of the dataset, in the same order
NumericRequested ==
    SelectSeq(RequestedFeatures,
              LAMBDA c : c \in Range(df.columns) /\ df.dtype[c] = "float64")

\* C5: in a successful response model_parameters.feature_columns and
\* data_info.feature_names are one list, the numeric ones among the requested
\* (or defaulted) feature columns in their order; it is not empty and
\* data_info.features is its length.  A request none of whose feature
\* columns is numeric is answered success=false without a fit.
C5_RecordedFeatures ==
    /\ TrainSucceeded =>
          LET fc == resp.data.model_parameters.feature_columns
              info == resp.data.data_info
          IN /\ fc = info.feature_names
             /\ fc = NumericRequested
             /\ Len(fc) > 0
             /\ info.features = Len(fc)
    /\ (TrainDone /\ HasRun("validate_target") /\ NumericRequested = <<>>) =>
          /\ ~resp.success
          /\ ~HasRun("split") /\ ~HasRun("fit")
          /\ metrics = NoMetrics

\* a request for a text and a numeric column has succeeded
C5_Witness ==
    /\ TrainSucceeded
    /\ params.feature_columns = List(<<"s", "x1">>)
    /\ resp.data.data_info.feature_names = <<"x1">>

\* C6 (as claimed): once imputation has run and the request goes on, neither
\* the feature matrix nor the target vector holds a missing value.
C6_NoMissingAfterImputation ==
    (endpoint = "train-svr" /\ HasRun("impute") /\ pc # "done") =>
       /\ \A c \in DOMAIN X.cells : ~HasNaN(X.cells[c])
       /\ ~HasNaN(y.cells)

\* SS_tot of a partition's target values is zero
ZeroVariance(idx) == TotalSumOfSquares(Take(y.cells, idx))[1] = 0

\* C7 (as claimed): the six metrics of a successful response are finite, and
\* a partition whose SS_tot is zero has R2 = 0.
C7_MetricsFinite ==
    TrainSucceeded =>
       LET m == resp.data.metrics
       IN /\ ~IsNaN(m.train_mse) /\ ~IsNaN(m.test_mse)
          /\ ~IsNaN(m.train_r2) /\ ~IsNaN(m.test_r2)
          /\ ~IsNaN(m.train_mae) /\ ~IsNaN(m.test_mae)
          /\ (ZeroVariance(split.train) => m.train_r2 = Num(0))
          /\ (ZeroVariance(split.test) => m.test_r2 = Num(0))

\* the upload's extension, compared without regard to case, is accepted
ExtensionAccepted(f) ==
    Lower(f.filename[Len(f.filename)]) \in {"csv", "xlsx", "xls"}

Oversize(f) == f.size > MAX_FILE_SIZE

\* C8 (as claimed): on both endpoints an upload with an unaccepted extension
\* or of more than the maximum size is rejected before any pipeline stage
\* runs, and an upload with an accepted extension is not rejected for it.
C8_UploadConstraints ==
    /\ (endpoint # "none" /\ (~ExtensionAccepted(file) \/ Oversize(file))) =>
          /\ Range(stages) \subseteq {"size_check", "extension_check"}
          /\ (pc = "done" => ~resp.success /\ ~resp.error.isNull)
    /\ (pc = "done" /\ ExtensionAccepted(file) /\ ~resp.success) =>
          "Unsupported file format" \notin Range(resp.error.text)

\* C9 (as claimed): when only the plotting failed, the response is not the
\* training failure and still carries the metrics.
C9_PlotFailureKeepsMetrics ==
    (TrainDone /\ HasRun("metrics") /\ caught # NoExc) =>
       /\ resp.message # "Failed to train SVR model"
       /\ resp.data # NoData
       /\ resp.data.metrics = metrics

\* C10 (as claimed): when a train-svr request has returned, as many figures
\* are open as when it arrived.
C10_FiguresClosed ==
    TrainDone => openFigures = figuresBefore

=============================================================================
